---------------------------- MODULE Spec2Model ----------------------------
(***************************************************************************)
(* Frame synchronisation, decoding and sequence tracking of the ADC        *)
(* capture scripts:                                                        *)
(*   serial_min   src/ADC_reading_HAL/ADC_csv_gather.py                    *)
(*   serial_ext   src/ADC_HAL_reduceclipping/ADC_readcsv_reducedclipping.py*)
(*   rpc_capture  src/2khz_RPC_sampling/RPC_capture.py                     *)
(*   rpc_sample   src/RPCtests/RPC_sample_csv.py                           *)
(* Bytes are integers 0..255.  A byte source is a finite sequence of bytes *)
(* and STALL tokens; after its last element the source is silent forever.  *)
(***************************************************************************)
EXTENDS Integers, Sequences, FiniteSets, TLC

VARIABLES
    prog,        \* which script runs
    wire,        \* serial: what the UART will deliver, in order
    pos,         \* serial: number of wire elements consumed so far
    resps,       \* rpc: what Bridge.call will return, in order
    calls,       \* rpc: number of Bridge.call made so far
    pc,          \* position of run_capture
    hdr,         \* serial: header bytes of the frame being decoded
    total, bad_crc, seq_errors, last_seq, bad, empty, total_gap,
    rows,        \* rows written to the csv writer after the title row
    accepted,    \* history: the frames that passed every check, in order
    evs,         \* history: outcome of each decode attempt, in order
    at,          \* history: cursor where the latest header read began
    syncs,       \* history: number of sync() calls made inside the loop
    exit,        \* history: why run_capture stopped
    sent,        \* history: the intact frames the source was given to deliver
    now,         \* time.monotonic(), in ticks of one ser.read call
    end_time,    \* run_capture: start + duration
    dl,          \* sync: deadline
    prev_byte,   \* sync: prev, the previous byte read (STALL stands for b"")
    from         \* history: cursor where the latest sync() call began

vars == <<prog, wire, pos, resps, calls, pc, hdr, total, bad_crc, seq_errors,
          last_seq, bad, empty, total_gap, rows, accepted, evs, at, syncs, exit,
          sent, now, end_time, dl, prev_byte, from>>

---------------------------------------------------------------------------
(* Bytes and integers                                                      *)

Byte == 0..255

\* A read that returns nothing before the serial timeout (1.0 s) expires.
STALL == -1

\* last_seq = None (a 32-bit value is a pair, never the empty tuple)
None == <<>>

RECURSIVE XorBits(_, _, _)
XorBits(a, b, n) ==
    IF n = 0 THEN 0
    ELSE (((a % 2) + (b % 2)) % 2) + 2 * XorBits(a \div 2, b \div 2, n - 1)

\* Python's ^ on two bytes, tabulated once.
XorByte == [a \in Byte |-> [b \in Byte |-> XorBits(a, b, 8)]]

\* Python's ^ on non-negative integers.
RECURSIVE Xor(_, _)
Xor(a, b) ==
    IF a = 0 THEN b
    ELSE IF b = 0 THEN a
    ELSE XorByte[a % 256][b % 256] + (256 * Xor(a \div 256, b \div 256))

\* struct "<H" / "<I" / little-endian fields: n as w bytes, low byte first.
RECURSIVE LE(_, _)
LE(n, w) == IF w = 0 THEN <<>> ELSE <<(n % 256)>> \o LE(n \div 256, w - 1)

\* struct.unpack_from("<H", buf, off)   (off is 0-based as in the source)
U16(buf, off) == buf[off + 1] + (256 * buf[off + 2])

\* A 32-bit unsigned value is kept as <<high half, low half>>, each 0..65535
\* (the checker's integers are narrower than 32 bits).
W32(hi, lo) == <<hi, lo>>

\* struct.unpack_from("<I", buf, off)
U32(buf, off) == W32(U16(buf, off + 2), U16(buf, off))

\* struct "<I" of a 32-bit value: four bytes, low byte first
LE32(v) == LE(v[2], 2) \o LE(v[1], 2)

\* The 32-bit value as an integer (values below 2^31 only)
Int32(v) == (v[1] * 65536) + v[2]

\* struct.unpack_from("<h", buf, off): a signed 16-bit value
S16(buf, off) ==
    LET u == U16(buf, off) IN IF u >= 32768 THEN u - 65536 ELSE u

\* buf[a:b] of Python for 0 <= a <= b <= len(buf)
Slice(buf, a, b) == SubSeq(buf, a + 1, b)

Range(s) == {s[i] : i \in DOMAIN s}

---------------------------------------------------------------------------
(* Checksums                                                               *)

\* The "for _ in range(8)" loop.  Each level binds the running value once
\* (c), so that it is reduced to a number before the next level uses it.
RECURSIVE CcittBits(_, _)
CcittBits(crc, n) ==
    IF n = 0 THEN crc
    ELSE CHOOSE r \in {CcittBits(IF (c \div 32768) % 2 = 1
                                 THEN Xor(c * 2, 4129)          \* 0x1021
                                 ELSE c * 2, n - 1) : c \in {crc}} : TRUE

\* One pass of "for b in data" per level, the running value bound likewise.
RECURSIVE Crc16From(_, _, _)
Crc16From(crc, data, i) ==
    IF i > Len(data) THEN crc
    ELSE CHOOSE r \in {Crc16From(CcittBits(Xor(c, data[i] * 256), 8) % 65536,
                                 data, i + 1) : c \in {crc}} : TRUE

\* crc16 of the serial scripts: CCITT, initial value 0xFFFF, not reflected
crc16(data) == Crc16From(65535, data, 1)

CRC_POLY == 40961   \* 0xA001

RECURSIVE IbmBits(_, _)
IbmBits(crc, n) ==
    IF n = 0 THEN crc
    ELSE IbmBits(IF crc % 2 = 1
                 THEN Xor(crc \div 2, CRC_POLY)
                 ELSE crc \div 2, n - 1)

RECURSIVE CrcIbmFrom(_, _, _)
CrcIbmFrom(crc, data, i) ==
    IF crc < 0 \/ i > Len(data) THEN crc
    ELSE CrcIbmFrom(IbmBits(Xor(crc, data[i]), 8), data, i + 1)

\* crc16_ibm of the RPC scripts: reflected, initial value 0
crc16_ibm(data) == CrcIbmFrom(0, data, 1) % 65536

---------------------------------------------------------------------------
(* Serial wire formats                                                     *)

Serial(p) == p \in {"serial_min", "serial_ext"}

\* MAGIC_B = bytes([0x5A, 0xA5])
MAGIC_B == <<90, 165>>

\* seq(4) + nsamp(2) [+ gap_cycles(4)]
HDR_AFTER_MAGIC(p) == IF p = "serial_min" THEN 6 ELSE 10

FRAME_SAMPLES(p) == IF p = "serial_min" THEN 512 ELSE 16384

\* raw = s & 0xFFF on a Python int (two's complement of unbounded width):
\* the twelve low bits, i.e. the non-negative remainder modulo 4096.
Mask12(s) == s % 4096

\* v & 0x3FFF on an unsigned value
Mask14(v) == v % 16384

RECURSIVE PackLE16(_)
PackLE16(vals) ==
    IF vals = <<>> THEN <<>> ELSE LE(Head(vals), 2) \o PackLE16(Tail(vals))

\* Header fields as the sketch transmits them (frame structure comment).
SerialHeader(p, seq, n, gap) ==
    LE32(seq) \o LE(n, 2) \o (IF p = "serial_ext" THEN LE32(gap) ELSE <<>>)

\* [MAGIC][seq][nsamp][gap_cycles][samples int16 x N][crc16], CRC over
\* magic + header + payload.
SerialFrame(p, seq, vals, gap) ==
    LET body == MAGIC_B \o SerialHeader(p, seq, Len(vals), gap) \o PackLE16(vals)
    IN  body \o LE(crc16(body), 2)

---------------------------------------------------------------------------
(* Byte source operations                                                  *)

\* Index of the first STALL in w[p+1 .. p+n], or 0.
RECURSIVE FirstStall(_, _, _)
FirstStall(w, p, n) ==
    IF n = 0 \/ p >= Len(w) THEN 0
    ELSE IF w[p + 1] = STALL THEN p + 1
    ELSE FirstStall(w, p + 1, n - 1)

\* read_exact(ser, n) with the cursor at p: the n bytes, or TimeoutError once
\* a read returns nothing (a STALL, or the end of the wire).
read_exact(w, p, n) ==
    LET st == FirstStall(w, p, n) IN
    IF st # 0 THEN [ok |-> FALSE, data |-> <<>>, pos |-> st]
    ELSE IF p + n > Len(w) THEN [ok |-> FALSE, data |-> <<>>, pos |-> Len(w)]
    ELSE [ok |-> TRUE, data |-> SubSeq(w, p + 1, p + n), pos |-> p + n]

\* A scan that looks at the bytes two at a time and so misses a marker at
\* an odd offset.
RECURSIVE ScanBug(_, _, _)
ScanBug(w, i, prev) ==
    IF i + 1 > Len(w) THEN 0
    ELSE IF w[i] = 90 /\ w[i + 1] = 165 THEN i + 1
    ELSE ScanBug(w, i + 2, prev)

\* The scan of sync(): the index of the byte that completes the first
\* 0x5A 0xA5 read from index i on with `prev` remembered, or 0.  A read that
\* returns nothing is skipped and `prev` is kept.
RECURSIVE Scan(_, _, _)
Scan(w, i, prev) ==
    IF i > Len(w) THEN 0
    ELSE IF w[i] = STALL THEN Scan(w, i + 1, prev)
    ELSE IF prev = 90 /\ w[i] = 165 THEN i
    ELSE Scan(w, i + 1, w[i])

\* A scan that starts again at the last byte already consumed.
syncBack(w, p) ==
    LET m == Scan(w, IF p > 0 THEN p ELSE 1, STALL) IN
    (IF m # 0 THEN {[ok |-> TRUE, pos |-> m]} ELSE {})
    \cup {[ok |-> FALSE, pos |-> q] : q \in p .. (IF m # 0 THEN m - 1 ELSE Len(w))}

\* sync(ser, timeout) from cursor p: True with the cursor after the marker,
\* or False when the deadline passes first, after any number of bytes.
sync(w, p) ==
    LET m == Scan(w, p + 1, STALL) IN
    (IF m # 0 THEN {[ok |-> TRUE, pos |-> m]} ELSE {})
    \cup {[ok |-> FALSE, pos |-> q] : q \in p .. (IF m # 0 THEN m - 1 ELSE Len(w))}

---------------------------------------------------------------------------
(* run_capture of the serial scripts                                       *)

seq_no  == U32(hdr, 0)
nsamp   == U16(hdr, 4)
gap_cyc == IF prog = "serial_ext" THEN Int32(U32(hdr, 6)) ELSE 0

\* What the run was given: never assigned by the scripts.
given == <<prog, wire, resps, sent>>

\* The clock and the locals of a sync() call in progress.  The untimed
\* specifications leave them alone: there a deadline may pass at any point.
clock == <<now, end_time, dl, prev_byte, from>>

\* The counters and outputs of run_capture.
stats == <<total, bad_crc, seq_errors, last_seq, bad, empty, total_gap, rows,
           accepted>>

SerialUnchanged == UNCHANGED <<given, calls, bad, empty>>

Stop(why) == pc' = "done" /\ exit' = why

\* if not sync(ser, timeout=5.0): ser.close(); return
InitialSync ==
    /\ pc = "start" /\ Serial(prog)
    /\ \E o \in sync(wire, pos) :
          /\ pos' = o.pos
          /\ IF o.ok THEN pc' = "top" /\ exit' = exit ELSE Stop("no_sync")
    /\ SerialUnchanged
    /\ UNCHANGED <<hdr, total, bad_crc, seq_errors, last_seq, total_gap, rows,
                   accepted, evs, at, syncs>>

\* while time.monotonic() < end_time: the clock is read here and only here
LoopTop ==
    /\ pc = "top"
    /\ pc' = IF Serial(prog) THEN "hdr" ELSE "call"
    /\ UNCHANGED <<given, stats, pos, calls, hdr, evs, at, syncs, exit>>

LoopExit ==
    /\ pc = "top"
    /\ Stop("deadline")
    /\ UNCHANGED <<given, stats, pos, calls, hdr, evs, at, syncs>>

\* nsamp == 0 or nsamp > FRAME_SAMPLES
BadCount(p, n) == n = 0 \/ n > FRAME_SAMPLES(p)

\* hdr = read_exact(ser, HDR_AFTER_MAGIC) and the length check
ReadHeader ==
    /\ pc = "hdr"
    /\ LET r == read_exact(wire, pos, HDR_AFTER_MAGIC(prog)) IN
       /\ pos' = r.pos
       /\ at' = pos
       /\ IF ~r.ok
          THEN /\ Stop("TimeoutError")
               /\ evs' = Append(evs, "timeout_header") /\ hdr' = hdr
          ELSE /\ hdr' = r.data
               /\ exit' = exit
               /\ IF BadCount(prog, U16(r.data, 4))
                  THEN pc' = "resync" /\ evs' = Append(evs, "malformed")
                  ELSE pc' = "payload" /\ evs' = evs
    /\ SerialUnchanged
    /\ UNCHANGED <<total, bad_crc, seq_errors, last_seq, total_gap, rows,
                   accepted, syncs>>

\* crc16(covered) != rx_crc
CrcMismatchBug(calc, rx) == FALSE
CrcMismatchLow(calc, rx) == (calc % 256) # (rx % 256)
CrcMismatch(calc, rx) == calc # rx

\* last_seq + 1, before the mask: the high half may reach 65536 (bit 32)
Plus1(v) == IF v[2] = 65535 THEN W32(v[1] + 1, 0) ELSE W32(v[1], v[2] + 1)

\* expected = (last_seq + 1) & 0xFFFFFFFF
ExpectedBug(last) == Plus1(last)
Expected(last) == LET e == Plus1(last) IN W32(e[1] % 65536, e[2])

\* if last_seq is not None: ... if seq != expected: seq_errors += 1
GapCountBug(last, seq) == IF last = None \/ seq # Expected(last) THEN 1 ELSE 0
GapCount(last, seq) == IF last # None /\ seq # Expected(last) THEN 1 ELSE 0

\* Rows that carry the payload in reverse order.
SerialRowsBug(p, payload, n, first, flag) ==
    [i \in 1..n |->
        [idx  |-> first + i - 1,
         raw  |-> Mask12(S16(payload, 2 * (n - i))),
         ts   |-> 0,
         flag |-> IF i = 1 THEN flag ELSE 0,
         f    |-> Len(accepted) + 1]]

\* last_seq = seq_no, whether or not a gap was counted
NextLastBug(last, seq) == IF last # None /\ seq # Expected(last) THEN last ELSE seq
NextLast(last, seq) == seq

\* gap_flag = 1 if gap_cyc > 0 and total > 0 else 0
GapFlagFirst(gap, written) == IF gap > 0 THEN 1 ELSE 0
GapFlag(gap, written) == IF gap > 0 /\ written > 0 THEN 1 ELSE 0

\* The rows written for one accepted serial frame.
SerialRows(p, payload, n, first, flag) ==
    [i \in 1..n |->
        [idx  |-> first + i - 1,
         raw  |-> Mask12(S16(payload, 2 * (i - 1))),
         ts   |-> 0,
         flag |-> IF i = 1 THEN flag ELSE 0,
         f    |-> Len(accepted) + 1]]

\* After the rows of an accepted frame the loop goes on to "Stay framed",
\* whether or not a sequence gap was counted.
AfterAcceptBug(gapped) == IF gapped = 1 THEN "resync" ELSE "stay"
AfterAcceptSkip(gapped) == "top"
AfterAccept(gapped) == "stay"

RECURSIVE Unpack16(_, _, _)
Unpack16(buf, off, n) ==
    IF n = 0 THEN <<>> ELSE <<U16(buf, off)>> \o Unpack16(buf, off + 2, n - 1)

\* payload and checksum reads, CRC check, sequence tracking, row writing
ReadPayload ==
    /\ pc = "payload"
    /\ LET r1 == read_exact(wire, pos, nsamp * 2)
           r2 == read_exact(wire, r1.pos, 2)
       IN
       IF ~r1.ok \/ ~r2.ok
       THEN /\ pos' = IF r1.ok THEN r2.pos ELSE r1.pos
            /\ Stop("TimeoutError") /\ evs' = Append(evs, "timeout_payload")
            /\ UNCHANGED <<total, bad_crc, seq_errors, last_seq, total_gap,
                           rows, accepted>>
       ELSE LET payload == r1.data
                rx_crc  == U16(r2.data, 0)
                covered == MAGIC_B \o hdr \o payload
                calc    == crc16(covered)
            IN
            /\ pos' = r2.pos
            /\ exit' = exit
            /\ IF CrcMismatch(calc, rx_crc)
               THEN /\ bad_crc' = bad_crc + 1
                    /\ pc' = "resync" /\ evs' = Append(evs, "crc")
                    /\ UNCHANGED <<total, seq_errors, last_seq, total_gap,
                                   rows, accepted>>
               ELSE LET gap_flag == GapFlag(gap_cyc, total)
                    IN
                    /\ seq_errors' = seq_errors + GapCount(last_seq, seq_no)
                    /\ last_seq' = NextLast(last_seq, seq_no)
                    /\ total_gap' = total_gap + gap_cyc
                    /\ rows' = rows \o SerialRows(prog, payload, nsamp, total, gap_flag)
                    /\ total' = total + nsamp
                    /\ accepted' = Append(accepted,
                          [seq |-> seq_no, n |-> nsamp, gap |-> gap_cyc,
                           vals |-> Unpack16(payload, 0, nsamp),
                           calc |-> calc, rx |-> rx_crc,
                           got |-> Len(payload) + Len(r2.data),
                           first |-> total, prev |-> last_seq,
                           errs |-> seq_errors', try |-> Len(evs) + 1])
                    /\ pc' = AfterAccept(GapCount(last_seq, seq_no))
                    /\ evs' = Append(evs, "accept")
                    /\ bad_crc' = bad_crc
    /\ SerialUnchanged
    /\ UNCHANGED <<hdr, at, syncs>>

\* Stay framed: nxt = read_exact(ser, 2); if nxt != MAGIC_B: sync
StayFramed ==
    /\ pc = "stay"
    /\ LET r == read_exact(wire, pos, 2) IN
       /\ pos' = r.pos
       /\ IF ~r.ok THEN Stop("TimeoutError")
          ELSE /\ exit' = exit
               /\ pc' = IF r.data # MAGIC_B THEN "resync" ELSE "top"
    /\ SerialUnchanged
    /\ UNCHANGED <<hdr, total, bad_crc, seq_errors, last_seq, total_gap, rows,
                   accepted, evs, at, syncs>>

\* if not sync(ser, timeout=2.0): break        (then continue / fall through)
Resync ==
    /\ pc = "resync"
    /\ syncs' = syncs + 1
    /\ \E o \in sync(wire, pos) :
          /\ pos' = o.pos
          /\ IF o.ok THEN pc' = "top" /\ exit' = exit ELSE Stop("sync_timeout")
    /\ SerialUnchanged
    /\ UNCHANGED <<hdr, total, bad_crc, seq_errors, last_seq, total_gap, rows,
                   accepted, evs, at>>

NextSerial ==
    \/ InitialSync /\ UNCHANGED clock
    \/ LoopTop /\ UNCHANGED clock
    \/ LoopExit /\ UNCHANGED clock
    \/ ReadHeader /\ UNCHANGED clock
    \/ ReadPayload /\ UNCHANGED clock
    \/ StayFramed /\ UNCHANGED clock
    \/ Resync /\ UNCHANGED clock

---------------------------------------------------------------------------
(* parse_frame of the RPC scripts                                          *)

\* A response of Bridge.call: t is "bytes", "str" or "none" (None), d its
\* bytes or character codes.
Resp(t, d) == [t |-> t, d |-> d]

\* set(b"0123456789abcdefABCDEF")
HexChars == (48..57) \cup (97..102) \cup (65..70)

HexVal(c) == IF c <= 57 THEN c - 48 ELSE IF c >= 97 THEN c - 87 ELSE c - 55

\* bytes.fromhex of an even number of hex digits
RECURSIVE FromHex(_)
FromHex(d) ==
    IF Len(d) < 2 THEN <<>>
    ELSE <<(16 * HexVal(d[1])) + HexVal(d[2])>> \o FromHex(Tail(Tail(d)))

\* ASCII whitespace removed by str.strip()
Space == {9, 10, 11, 12, 13, 32}

RECURSIVE LStrip(_)
LStrip(d) == IF d # <<>> /\ Head(d) \in Space THEN LStrip(Tail(d)) ELSE d

RECURSIVE RStrip(_)
RStrip(d) ==
    IF d # <<>> /\ d[Len(d)] \in Space THEN RStrip(SubSeq(d, 1, Len(d) - 1))
    ELSE d

\* The text handed to bytes.fromhex has no inner whitespace in any response
\* considered here, so it decodes exactly when it is an even number of hex
\* digits and raises ValueError otherwise.
HexText(d) == Len(d) % 2 = 0 /\ \A i \in DOMAIN d : d[i] \in HexChars

\* Lines "if not resp" to "except ValueError: return": the canonical bytes
\* of a response, or a rejection.
Normalize(resp) ==
    IF resp.t = "none" \/ resp.d = <<>> THEN [ok |-> FALSE, buf |-> <<>>, why |-> "empty"]
    ELSE IF resp.t = "bytes"
    THEN [ok |-> TRUE, why |-> "",
          buf |-> IF HexText(resp.d) THEN FromHex(resp.d) ELSE resp.d]
    ELSE LET txt == RStrip(LStrip(resp.d)) IN
         IF HexText(txt) THEN [ok |-> TRUE, buf |-> FromHex(txt), why |-> ""]
         ELSE [ok |-> FALSE, buf |-> <<>>, why |-> "text"]

\* samples is None
NoList == <<-1>>

\* A rejection that still reports a sequence number and a sample list.
RejectedBug(why) ==
    [seq |-> W32(0, 0), samples |-> <<>>, ts |-> NoList, why |-> why,
     count |-> 0, calc |-> 0, rx |-> 0, vals |-> <<>>, got |-> 0]

\* A rejection that reports no sequence number but an empty sample list.
RejectedNoSeq(why) ==
    [seq |-> None, samples |-> <<>>, ts |-> NoList, why |-> why,
     count |-> 0, calc |-> 0, rx |-> 0, vals |-> <<>>, got |-> 0]

Rejected(why) ==
    [seq |-> None, samples |-> NoList, ts |-> NoList, why |-> why,
     count |-> 0, calc |-> 0, rx |-> 0, vals |-> <<>>, got |-> 0]

RECURSIVE MaskAll14(_)
MaskAll14(vals) ==
    IF vals = <<>> THEN <<>>
    ELSE <<Mask14(Head(vals))>> \o MaskAll14(Tail(vals))

\* Every leading 0x21 removed
RECURSIVE StripOverflowAll(_)
StripOverflowAll(buf) ==
    IF buf # <<>> /\ buf[1] = 33 THEN StripOverflowAll(Tail(buf)) ELSE buf

\* if buf and buf[0] == 0x21: buf = buf[1:]
StripOverflow(buf) == IF buf # <<>> /\ buf[1] = 33 THEN Tail(buf) ELSE buf

\* parse_frame of RPC_capture.py: [count(2)][seq(4)][samples(count*2)][crc16(2)]
ParseCapture(resp) ==
    LET nz == Normalize(resp) IN
    IF ~nz.ok THEN Rejected(nz.why)
    ELSE
    LET buf == StripOverflow(nz.buf) IN
    IF Len(buf) < 8 THEN Rejected("short")
    ELSE
    LET count == U16(buf, 0)
        seq   == U32(buf, 2)
    IN
    IF Len(buf) # 6 + (count * 2) + 2 THEN Rejected("length")
    ELSE
    LET calc == crc16_ibm(Slice(buf, 0, Len(buf) - 2))
        rx   == U16(buf, Len(buf) - 2)
        vals == Unpack16(buf, 6, count)
    IN
    IF CrcMismatch(calc, rx) THEN Rejected("crc")
    ELSE [seq |-> seq, samples |-> MaskAll14(vals), ts |-> NoList,
          why |-> "accept", count |-> count, calc |-> calc, rx |-> rx,
          vals |-> vals, got |-> Len(buf) - 6]

MAX_SAMPLES == 255

\* Each timestamp taken from the base alone, the deltas not accumulated
RECURSIVE InterleavedFlat(_, _, _, _)
InterleavedFlat(buf, offset, n, prev_t) ==
    IF n = 0 THEN [samples |-> <<>>, ts |-> <<>>]
    ELSE LET sample == U16(buf, offset)
             t      == prev_t + buf[offset + 2 + 1]
             rest   == InterleavedFlat(buf, offset + 3, n - 1, prev_t)
         IN  [samples |-> <<sample>> \o rest.samples, ts |-> <<t>> \o rest.ts]

\* The "for _ in range(count)" loop: samples and accumulated timestamps
RECURSIVE Interleaved(_, _, _, _)
Interleaved(buf, offset, n, prev_t) ==
    IF n = 0 THEN [samples |-> <<>>, ts |-> <<>>]
    ELSE LET sample == U16(buf, offset)
             t      == prev_t + buf[offset + 2 + 1]
             rest   == Interleaved(buf, offset + 3, n - 1, t)
         IN  [samples |-> <<sample>> \o rest.samples, ts |-> <<t>> \o rest.ts]

\* return [], []
RejectedSample(why) ==
    [seq |-> None, samples |-> <<>>, ts |-> <<>>, why |-> why,
     count |-> 0, calc |-> 0, rx |-> 0, vals |-> <<>>, got |-> 0]

\* parse_frame of RPC_sample_csv.py:
\* [count(1)][t0(4)][count x (sample(2), delta(1))][crc16(2)]
ParseSample(resp) ==
    LET nz == Normalize(resp) IN
    IF ~nz.ok THEN RejectedSample(nz.why)
    ELSE
    LET buf == IF nz.buf # <<>> /\ nz.buf[1] = 33 /\ Len(nz.buf) > 1
               THEN Tail(nz.buf) ELSE nz.buf
    IN
    IF Len(buf) < 7 THEN RejectedSample("short")
    ELSE
    LET count == buf[1] IN
    IF count = 0 \/ count > MAX_SAMPLES THEN RejectedSample("malformed")
    ELSE IF Len(buf) # 1 + 4 + (count * 3) + 2 THEN RejectedSample("length")
    ELSE
    LET calc == crc16_ibm(Slice(buf, 0, Len(buf) - 2))
        rx   == buf[Len(buf) - 1] + (buf[Len(buf)] * 256)
    IN
    IF CrcMismatch(calc, rx) THEN RejectedSample("crc")
    ELSE LET t0  == Int32(U32(buf, 1))
             dec == Interleaved(buf, 5, count, t0)
         IN  [seq |-> None, samples |-> dec.samples, ts |-> dec.ts,
              why |-> "accept", count |-> count, calc |-> calc, rx |-> rx,
              vals |-> dec.samples, got |-> Len(buf) - 5]

---------------------------------------------------------------------------
(* run_capture of the RPC scripts                                          *)

RpcUnchanged == UNCHANGED <<given, pos, hdr, bad_crc, total_gap, at, syncs, exit>>

\* for s in samples: writer.writerow([total, s, volts]); total += 1
RpcRows(samples, ts, first) ==
    [i \in 1..Len(samples) |->
        [idx  |-> first + i - 1,
         raw  |-> samples[i],
         ts   |-> IF ts = NoList THEN 0 ELSE ts[i],
         flag |-> 0,
         f    |-> Len(accepted) + 1]]

Accepting(r) ==
    Append(accepted,
        [seq |-> r.seq, n |-> r.count, gap |-> 0, vals |-> r.vals,
         calc |-> r.calc, rx |-> r.rx, got |-> r.got, first |-> total,
         prev |-> last_seq, errs |-> seq_errors', try |-> Len(evs) + 1])

\* One iteration of the loop of RPC_capture.run_capture
CaptureCall ==
    /\ pc = "call" /\ prog = "rpc_capture" /\ calls < Len(resps)
    /\ calls' = calls + 1
    /\ pc' = "top"
    /\ LET r == ParseCapture(resps[calls + 1]) IN
       /\ evs' = Append(evs, r.why)
       /\ IF r.samples = NoList
          THEN /\ empty' = empty + 1
               /\ UNCHANGED <<bad, last_seq, seq_errors, rows, total, accepted>>
          ELSE IF r.seq = None
          THEN /\ bad' = bad + 1
               /\ UNCHANGED <<empty, last_seq, seq_errors, rows, total, accepted>>
          ELSE /\ seq_errors' = seq_errors + GapCount(last_seq, r.seq)
               /\ last_seq' = NextLast(last_seq, r.seq)
               /\ rows' = rows \o RpcRows(r.samples, r.ts, total)
               /\ total' = total + Len(r.samples)
               /\ accepted' = Accepting(r)
               /\ UNCHANGED <<bad, empty>>
    /\ RpcUnchanged

\* One iteration of the loop of RPC_sample_csv.run_capture
SampleCall ==
    /\ pc = "call" /\ prog = "rpc_sample" /\ calls < Len(resps)
    /\ calls' = calls + 1
    /\ pc' = "top"
    /\ UNCHANGED <<empty, last_seq, seq_errors>>
    /\ LET r == ParseSample(resps[calls + 1]) IN
       /\ evs' = Append(evs, r.why)
       /\ IF r.samples = <<>>
          THEN /\ bad' = bad + 1
               /\ UNCHANGED <<rows, total, accepted>>
          ELSE /\ rows' = rows \o RpcRows(r.samples, r.ts, total)
               /\ total' = total + Len(r.samples)
               /\ accepted' = Accepting(r)
               /\ bad' = bad
    /\ RpcUnchanged

---------------------------------------------------------------------------
(* What the serial link delivers                                           *)

MaxItems == 3

\* Payloads in 16-bit containers: within the 12-bit depth, and all bits set.
PayloadDeep == <<4095, 1>>
PayloadFull == <<65535>>

\* Replace the byte at 1-based index i
SetByte(b, i, v) == [b EXCEPT ![i] = v]

\* One thing the link may deliver when the sketch's next sequence number is
\* s: its bytes, the sketch's sequence number afterwards, and the intact
\* frames among them.
Items(p, s) ==
    LET nx(k) == IF k = 1 THEN Expected(s) ELSE Expected(Expected(s))
        fr(q, vals, gap) == [seq |-> q, vals |-> vals, gap |-> gap]
        good == SerialFrame(p, s, PayloadDeep, W32(0, 0))
        hl   == 2 + HDR_AFTER_MAGIC(p)
    IN
    { \* the next frame, intact
      [b |-> good, s |-> nx(1), f |-> <<fr(s, PayloadDeep, 0)>>],
      \* one frame dropped upstream, then an intact frame
      [b |-> SerialFrame(p, nx(1), PayloadFull, W32(0, 7)), s |-> nx(2),
       f |-> <<fr(nx(1), PayloadFull, IF p = "serial_ext" THEN 7 ELSE 0)>>],
      \* headers whose count is 0 or above FRAME_SAMPLES
      [b |-> MAGIC_B \o SerialHeader(p, s, 0, W32(0, 0)), s |-> nx(1), f |-> <<>>],
      [b |-> MAGIC_B \o SerialHeader(p, s, FRAME_SAMPLES(p) + 1, W32(0, 0)),
       s |-> nx(1), f |-> <<>>],
      \* a frame with its first payload byte changed on the link
      [b |-> SetByte(SerialFrame(p, s, PayloadDeep, W32(0, 7)), hl + 1, 254),
       s |-> nx(1), f |-> <<>>],
      \* marker and header, then silence
      [b |-> SubSeq(good, 1, hl) \o <<STALL>>, s |-> nx(1), f |-> <<>>],
      \* line noise, with and without the marker bytes in it
      [b |-> <<0>>, s |-> s, f |-> <<>>],
      [b |-> <<90, 165>>, s |-> s, f |-> <<>>] }

RECURSIVE Streams(_, _, _)
Streams(p, s, k) ==
    {[b |-> <<>>, f |-> <<>>]} \cup
    (IF k = 0 THEN {}
     ELSE UNION { {[b |-> it.b \o r.b, f |-> it.f \o r.f] :
                      r \in Streams(p, it.s, k - 1)} : it \in Items(p, s) })

\* First sequence numbers of a session
FirstSeqs == {W32(0, 5), W32(65535, 65535)}

Start ==
    /\ pos = 0 /\ calls = 0 /\ hdr = <<>>
    /\ total = 0 /\ bad_crc = 0 /\ seq_errors = 0 /\ last_seq = None
    /\ bad = 0 /\ empty = 0 /\ total_gap = 0 /\ rows = <<>>
    /\ accepted = <<>> /\ evs = <<>> /\ at = 0 /\ syncs = 0 /\ exit = ""
    /\ now = 0 /\ end_time = 0 /\ dl = 0 /\ prev_byte = STALL /\ from = 0

InitSerial ==
    /\ prog \in {"serial_min", "serial_ext"}
    /\ \E s \in FirstSeqs : \E st \in Streams(prog, s, MaxItems) :
          wire = st.b /\ sent = st.f
    /\ resps = <<>>
    /\ pc = "start"
    /\ Start

---------------------------------------------------------------------------
(* What the bridge returns                                                 *)

MaxCalls == 2

\* [count(2)][seq(4)][samples(count*2)][crc16(2)], CRC over all before it
CaptureBlob(seq, vals) ==
    LET body == LE(Len(vals), 2) \o LE32(seq) \o PackLE16(vals)
    IN  body \o LE(crc16_ibm(body), 2)

RECURSIVE PackInterleaved(_, _)
PackInterleaved(vals, deltas) ==
    IF vals = <<>> THEN <<>>
    ELSE LE(Head(vals), 2) \o <<Head(deltas)>>
         \o PackInterleaved(Tail(vals), Tail(deltas))

\* [count(1)][t0(4)][count x (sample(2), delta(1))][crc16(2)]
SampleBlob(t0, vals, deltas) ==
    LET body == <<Len(vals)>> \o LE32(t0) \o PackInterleaved(vals, deltas)
    IN  body \o LE(crc16_ibm(body), 2)

\* Lower-case hex text of bytes, as character codes
HexDigit(n) == IF n < 10 THEN 48 + n ELSE 87 + n

RECURSIVE ToHex(_)
ToHex(b) ==
    IF b = <<>> THEN <<>>
    ELSE <<HexDigit(Head(b) \div 16), HexDigit(Head(b) % 16)>> \o ToHex(Tail(b))

\* The count whose low byte is the overflow marker 0x21
Count33 == 33

Ramp(n) == [i \in 1..n |-> i]
Ones(n) == [i \in 1..n |-> 1]

NoFrame == [valid |-> FALSE, seq |-> None, vals |-> <<>>, t0 |-> 0, deltas |-> <<>>]

Frame(seq, vals, t0, deltas) ==
    [valid |-> TRUE, seq |-> seq, vals |-> vals, t0 |-> t0, deltas |-> deltas]

\* Base timestamp of the interleaved frames
T0 == W32(0, 1000)

\* The blob of one frame and the damaged, wrapped and textual forms of it
Variants(blob, fr, firstPayload) ==
    { [r |-> Resp("bytes", blob), f |-> fr],
      \* one payload byte changed
      [r |-> Resp("bytes", SetByte(blob, firstPayload, 254)), f |-> NoFrame],
      \* truncated, and with a trailing extra byte
      [r |-> Resp("bytes", SubSeq(blob, 1, Len(blob) - 1)), f |-> NoFrame],
      [r |-> Resp("bytes", blob \o <<0>>), f |-> NoFrame],
      \* overflow marker prepended
      [r |-> Resp("bytes", <<33>> \o blob), f |-> fr],
      \* overflow marker prepended twice
      [r |-> Resp("bytes", <<33, 33>> \o blob), f |-> NoFrame],
      \* hex text, as bytes and as str
      [r |-> Resp("bytes", ToHex(blob)), f |-> NoFrame],
      [r |-> Resp("str", ToHex(blob) \o <<10>>), f |-> NoFrame] }

\* What one Bridge.call may return when the sketch's next sequence number
\* is s: the response, the sequence number afterwards, the frame it carries.
RpcItems(p, s) ==
    LET n1 == Expected(s)
        n2 == Expected(n1)
        it(r, q, f) == [r |-> r, s |-> q, f |-> f]
    IN
    IF p = "rpc_capture"
    THEN { it(v.r, n1, v.f) :
             v \in Variants(CaptureBlob(s, PayloadDeep),
                            Frame(s, PayloadDeep, 0, <<>>), 7) }
         \cup
         { it(Resp("bytes", CaptureBlob(n1, PayloadFull)), n2,
              Frame(n1, PayloadFull, 0, <<>>)),
           it(Resp("bytes", CaptureBlob(s, <<>>)), n1, NoFrame),
           it(Resp("bytes", CaptureBlob(s, Ramp(Count33))), n1,
              Frame(s, Ramp(Count33), 0, <<>>)),
           \* fewer bytes than the shortest frame
           it(Resp("bytes", <<2, 0, 5>>), s, NoFrame),
           it(Resp("str", <<122, 122>>), s, NoFrame),
           it(Resp("none", <<>>), s, NoFrame) }
    ELSE { it(v.r, s, v.f) :
             v \in Variants(SampleBlob(T0, PayloadDeep, <<3, 0>>),
                            Frame(None, PayloadDeep, 1000, <<3, 0>>), 6) }
         \cup
         { it(Resp("bytes", SampleBlob(T0, PayloadFull, <<255>>)), s,
              Frame(None, PayloadFull, 1000, <<255>>)),
           it(Resp("bytes", SampleBlob(T0, <<>>, <<>>)), s, NoFrame),
           it(Resp("bytes", SampleBlob(T0, Ramp(Count33), Ones(Count33))), s,
              Frame(None, Ramp(Count33), 1000, Ones(Count33))),
           \* fewer bytes than the shortest frame
           it(Resp("bytes", <<2, 0, 5>>), s, NoFrame),
           it(Resp("str", <<122, 122>>), s, NoFrame),
           it(Resp("none", <<>>), s, NoFrame) }

RECURSIVE RpcStreams(_, _, _)
RpcStreams(p, s, k) ==
    {[r |-> <<>>, f |-> <<>>]} \cup
    (IF k = 0 THEN {}
     ELSE UNION { {[r |-> <<it.r>> \o x.r, f |-> <<it.f>> \o x.f] :
                      x \in RpcStreams(p, it.s, k - 1)} : it \in RpcItems(p, s) })

InitRPC ==
    /\ prog \in {"rpc_capture", "rpc_sample"}
    /\ \E s \in FirstSeqs : \E st \in RpcStreams(prog, s, MaxCalls) :
          resps = st.r /\ sent = st.f
    /\ wire = <<>>
    /\ pc = "top"
    /\ Start

Init == InitSerial \/ InitRPC

Next ==
    \/ NextSerial
    \/ CaptureCall /\ UNCHANGED clock
    \/ SampleCall /\ UNCHANGED clock

Spec == Init /\ [][Next]_vars

---------------------------------------------------------------------------
(* Resynchronisation streams: [garbage][MAGIC][frame][MAGIC][frame]        *)

MaxGarbage == 3

GarbageBytes == {0, 90, 165}

RECURSIVE GarbageSeqs(_)
GarbageSeqs(k) ==
    IF k = 0 THEN {<<>>}
    ELSE LET shorter == GarbageSeqs(k - 1) IN
         shorter \cup {Append(g, b) : g \in shorter, b \in GarbageBytes}

TwoFrames(p) ==
    LET s1 == W32(0, 5)
        s2 == W32(0, 6)
    IN  [b |-> SerialFrame(p, s1, PayloadDeep, W32(0, 0))
               \o SerialFrame(p, s2, PayloadFull, W32(0, 7)),
         f |-> << [seq |-> s1, vals |-> PayloadDeep, gap |-> 0],
                  [seq |-> s2, vals |-> PayloadFull,
                   gap |-> IF p = "serial_ext" THEN 7 ELSE 0] >>]

InitResync ==
    /\ prog \in {"serial_min", "serial_ext"}
    /\ \E g \in GarbageSeqs(MaxGarbage) :
          wire = g \o TwoFrames(prog).b /\ sent = TwoFrames(prog).f
    /\ resps = <<>>
    /\ pc = "start"
    /\ Start

SpecResync == InitResync /\ [][NextSerial]_vars

---------------------------------------------------------------------------
(* Single-byte payload corruption: a frame with one payload byte changed,  *)
(* followed by an intact frame                                             *)

\* 1-based positions of the payload bytes of a two-sample frame
PayloadAt(p) ==
    IF Serial(p) THEN (2 + HDR_AFTER_MAGIC(p) + 1) .. (2 + HDR_AFTER_MAGIC(p) + 4)
    ELSE IF p = "rpc_capture" THEN 7..10
    ELSE 6..11

FlipFrame(p) ==
    IF Serial(p) THEN SerialFrame(p, W32(0, 5), PayloadDeep, W32(0, 0))
    ELSE IF p = "rpc_capture" THEN CaptureBlob(W32(0, 5), PayloadDeep)
    ELSE SampleBlob(T0, PayloadDeep, <<3, 0>>)

NextFrame(p) ==
    IF Serial(p) THEN SerialFrame(p, W32(0, 6), PayloadFull, W32(0, 7))
    ELSE IF p = "rpc_capture" THEN CaptureBlob(W32(0, 6), PayloadFull)
    ELSE SampleBlob(T0, PayloadFull, <<255>>)

InitFlip ==
    /\ prog \in {"serial_min", "serial_ext", "rpc_capture", "rpc_sample"}
    /\ \E i \in PayloadAt(prog) : \E v \in Byte \ {FlipFrame(prog)[i]} :
          LET flipped == SetByte(FlipFrame(prog), i, v) IN
          IF Serial(prog)
          THEN wire = flipped \o NextFrame(prog) /\ resps = <<>>
          ELSE wire = <<>>
               /\ resps = <<Resp("bytes", flipped), Resp("bytes", NextFrame(prog))>>
    /\ sent = <<>>
    /\ pc = IF Serial(prog) THEN "start" ELSE "top"
    /\ Start

SpecFlip == InitFlip /\ [][Next]_vars

---------------------------------------------------------------------------
(* Single-byte header corruption: an intact frame, a frame with one byte   *)
(* of its sequence-number (or gap-cycle) field changed, an intact frame    *)

\* 1-based positions of the sequence-number bytes, and in the extended
\* format of the gap-cycle bytes, of a frame
HeaderAt(p) ==
    IF p = "rpc_capture" THEN 3..6
    ELSE IF p = "serial_ext" THEN (3..6) \cup (9..12)
    ELSE 3..6

\* The k-th frame of the stream: sequence numbers 4, 5, 6
HdrFrame(p, k) ==
    IF Serial(p) THEN SerialFrame(p, W32(0, 3 + k), PayloadDeep, W32(0, 0))
    ELSE CaptureBlob(W32(0, 3 + k), PayloadDeep)

InitHdr ==
    /\ prog \in {"serial_min", "serial_ext", "rpc_capture"}
    /\ \E i \in HeaderAt(prog) : \E v \in Byte \ {HdrFrame(prog, 2)[i]} :
          LET flipped == SetByte(HdrFrame(prog, 2), i, v) IN
          IF Serial(prog)
          THEN wire = HdrFrame(prog, 1) \o flipped \o HdrFrame(prog, 3)
               /\ resps = <<>>
          ELSE wire = <<>>
               /\ resps = <<Resp("bytes", HdrFrame(prog, 1)),
                            Resp("bytes", flipped),
                            Resp("bytes", HdrFrame(prog, 3))>>
    /\ sent = <<>>
    /\ pc = IF Serial(prog) THEN "start" ELSE "top"
    /\ Start

NextHdr ==
    \/ NextSerial
    \/ CaptureCall /\ UNCHANGED clock

SpecHdr == InitHdr /\ [][NextHdr]_vars
---------------------------------------------------------------------------
(* The capture loop against the clock.  Every ser.read call takes one tick *)
(* (the clock advances); sync() is taken one loop iteration at a time.     *)

\* Windows in ticks: sync(ser, timeout=5.0), sync(ser, timeout=2.0) and
\* the --duration of the session, scaled to the streams considered.
InitialWindow == 5
SyncWindow == 2
Duration == 5

\* No session runs past this tick
Horizon == InitialWindow + Duration + SyncWindow + 8

\* not (time.monotonic() < deadline)
ExpiredBug(t, deadline) == FALSE
Expired(t, deadline) == t >= deadline

\* prev == bytes([0x5A]) and b == bytes([0xA5])
MarkerSeenBug(p, b) == b = 165
MarkerSeen(p, b) == p = 90 /\ b = 165

Syncing == pc \in {"sync0", "sync"}

\* sync(ser, timeout): deadline = time.monotonic() + timeout; prev = b""
SyncEnter ==
    /\ pc \in {"start", "resync"} /\ Serial(prog)
    /\ pc' = IF pc = "start" THEN "sync0" ELSE "sync"
    /\ dl' = now + (IF pc = "start" THEN InitialWindow ELSE SyncWindow)
    /\ prev_byte' = STALL
    /\ from' = pos
    /\ syncs' = IF pc = "start" THEN syncs ELSE syncs + 1
    /\ UNCHANGED <<given, stats, pos, calls, hdr, evs, at, exit, now, end_time>>

\* One iteration of sync's loop: b = ser.read(1), which returns nothing when
\* the source stalls or is silent; the marker test; prev = b.  Returning
\* True from the initial sync, run_capture sets start and end_time.
SyncRead ==
    /\ Syncing /\ ~Expired(now, dl) /\ now < Horizon
    /\ LET b == IF pos < Len(wire) THEN wire[pos + 1] ELSE STALL IN
       /\ pos' = IF pos < Len(wire) THEN pos + 1 ELSE pos
       /\ now' = now + 1
       /\ IF b = STALL
          THEN UNCHANGED <<pc, prev_byte, end_time>>
          ELSE IF MarkerSeen(prev_byte, b)
          THEN /\ pc' = "top"
               /\ prev_byte' = prev_byte
               /\ end_time' = IF pc = "sync0" THEN now' + Duration ELSE end_time
          ELSE /\ prev_byte' = b
               /\ UNCHANGED <<pc, end_time>>
    /\ UNCHANGED <<given, stats, calls, hdr, evs, at, syncs, exit, dl, from>>

\* The deadline has passed: sync returns False; run_capture returns (initial
\* sync) or breaks out of its loop.
SyncExpire ==
    /\ Syncing /\ Expired(now, dl)
    /\ Stop(IF pc = "sync0" THEN "no_sync" ELSE "sync_timeout")
    /\ UNCHANGED <<given, stats, pos, calls, hdr, evs, at, syncs, clock>>

Timed(n) == now' = now + n /\ UNCHANGED <<end_time, dl, prev_byte, from>>

NextLive ==
    \/ SyncEnter
    \/ SyncRead
    \/ SyncExpire
    \/ LoopTop /\ now < end_time /\ UNCHANGED clock
    \/ LoopExit /\ ~(now < end_time) /\ UNCHANGED clock
    \/ ReadHeader /\ Timed(1)
    \/ ReadPayload /\ Timed(2)
    \/ StayFramed /\ Timed(1)

\* Garbage with stalls in it
LiveBytes == {0, 90, 165, STALL}

RECURSIVE LiveGarbage(_)
LiveGarbage(k) ==
    IF k = 0 THEN {<<>>}
    ELSE LET shorter == LiveGarbage(k - 1) IN
         shorter \cup {Append(g, b) : g \in shorter, b \in LiveBytes}

MaxLive == 3

\* What the link may deliver next: an intact frame, a frame with a payload
\* byte changed, a header declaring no samples, a noise byte, a stall.
LiveItems(p, s) ==
    LET good == SerialFrame(p, s, PayloadDeep, W32(0, 0))
        fr   == [seq |-> s, vals |-> PayloadDeep, gap |-> 0]
    IN
    { [b |-> good, s |-> Expected(s), f |-> <<fr>>],
      [b |-> SetByte(good, 2 + HDR_AFTER_MAGIC(p) + 1, 254), s |-> Expected(s),
       f |-> <<>>],
      [b |-> MAGIC_B \o SerialHeader(p, s, 0, W32(0, 0)), s |-> Expected(s),
       f |-> <<>>],
      [b |-> <<0>>, s |-> s, f |-> <<>>],
      [b |-> <<STALL>>, s |-> s, f |-> <<>>] }

RECURSIVE LiveStreams(_, _, _)
LiveStreams(p, s, k) ==
    {[b |-> <<>>, f |-> <<>>]} \cup
    (IF k = 0 THEN {}
     ELSE UNION { {[b |-> it.b \o r.b, f |-> it.f \o r.f] :
                      r \in LiveStreams(p, it.s, k - 1)} : it \in LiveItems(p, s) })

\* Streams of such items, and garbage with stalls in front of two frames.
\* A stream that outlasts the windows stands for a source that never
\* stops; after the stream the source is silent.
InitLive ==
    /\ prog \in {"serial_min", "serial_ext"}
    /\ \/ \E st \in LiveStreams(prog, W32(0, 5), MaxLive) :
             wire = st.b /\ sent = st.f
       \/ \E g \in LiveGarbage(MaxGarbage) :
             wire = g \o TwoFrames(prog).b /\ sent = TwoFrames(prog).f
    /\ resps = <<>>
    /\ pc = "start"
    /\ Start

SpecLive == InitLive /\ [][NextLive]_vars /\ WF_vars(NextLive)

---------------------------------------------------------------------------
(* Vocabulary of the properties                                            *)

HasSeq(p) == p \in {"serial_min", "serial_ext", "rpc_capture"}

\* Bit depth of the sensor in each script (ADC_BITS, bits)
Depth(p) == IF p = "rpc_capture" THEN 14 ELSE 12

RECURSIVE Pow2(_)
Pow2(n) == IF n = 0 THEN 1 ELSE 2 * Pow2(n - 1)

\* Largest sample count a header may declare
MaxCount(p) ==
    IF Serial(p) THEN FRAME_SAMPLES(p)
    ELSE IF p = "rpc_sample" THEN MAX_SAMPLES
    ELSE 65535

\* Bytes per payload element
ElemWidth(p) == IF p = "rpc_sample" THEN 3 ELSE 2

\* b = (a + 1) mod 2^32, on the halves
IsNext(a, b) ==
    /\ b[2] = (a[2] + 1) % 65536
    /\ b[1] = (a[1] + (IF a[2] = 65535 THEN 1 ELSE 0)) % 65536

AcceptedSeqs == [k \in DOMAIN accepted |-> accepted[k].seq]

\* The raw values written for accepted frame k
RowsOf(k) ==
    [j \in 1..accepted[k].n |-> rows[accepted[k].first + j].raw]

InDepth(p, vals) == \A j \in DOMAIN vals : vals[j] < Pow2(Depth(p))

LastEv == IF evs = <<>> THEN "none" ELSE evs[Len(evs)]

\* The session ended because the source went silent after its last byte
RanOut == pc = "done" /\ exit = "TimeoutError" /\ pos = Len(wire)

RECURSIVE WireOf(_, _)
WireOf(p, frames) ==
    IF frames = <<>> THEN <<>>
    ELSE SerialFrame(p, Head(frames).seq, Head(frames).vals,
                     W32(0, Head(frames).gap)) \o WireOf(p, Tail(frames))

\* accepted frame k carries frame fr
Carries(k, fr) ==
    /\ accepted[k].seq = fr.seq
    /\ accepted[k].n = Len(fr.vals)
    /\ RowsOf(k) = fr.vals

---------------------------------------------------------------------------
(* C1: round trip.  A valid frame (count within bounds, samples within the *)
(* bit depth), serialised in its format and handed to the decoder, is      *)
(* accepted with the same sequence number, sample count and samples.       *)
(* Serial: a wire made of such frames only, read to its end, yields        *)
(* exactly those frames.  RPC: every call that returned the blob of such a *)
(* frame produced that frame.                                              *)
C1_RoundTrip ==
    /\ (Serial(prog) /\ RanOut /\ sent # <<>>
        /\ (\A i \in DOMAIN sent : InDepth(prog, sent[i].vals))
        /\ wire = WireOf(prog, sent))
       => /\ Len(accepted) = Len(sent)
          /\ \A i \in DOMAIN sent : Carries(i, sent[i])
    /\ ~Serial(prog)
       => \A i \in 1..calls :
            (/\ sent[i].valid
             /\ InDepth(prog, sent[i].vals)
             /\ resps[i] = Resp("bytes",
                    IF prog = "rpc_capture"
                    THEN CaptureBlob(sent[i].seq, sent[i].vals)
                    ELSE SampleBlob(T0, sent[i].vals, sent[i].deltas)))
            => \E k \in DOMAIN accepted :
                  accepted[k].try = i /\ Carries(k, sent[i])

(* C2: a declared sample count of 0 or above the format's maximum is a     *)
(* malformed header: the frame is never accepted (so no sample is          *)
(* delivered and the sequence state is not touched), and in the serial     *)
(* loop no payload byte has been read when the header is rejected.         *)
C2_BadCountRejected ==
    /\ \A k \in DOMAIN accepted :
          accepted[k].n >= 1 /\ accepted[k].n <= MaxCount(prog)
    /\ (Serial(prog) /\ pc = "resync" /\ LastEv = "malformed")
       => pos = at + HDR_AFTER_MAGIC(prog)

(* C3: a frame with exactly one payload byte changed fails the checksum:   *)
(* the attempt ends as a CRC mismatch, the frame is never accepted, no row *)
(* comes from it, and in the serial loop bad_crc has grown by exactly one. *)
(* Checked on streams whose first frame has one payload byte changed (all  *)
(* positions, all 255 other values) and whose second frame is intact.      *)
C3_FlipRejected ==
    /\ Len(evs) >= 1 => evs[1] = "crc"
    /\ \A k \in DOMAIN accepted : accepted[k].try > 1
    /\ \A i \in DOMAIN rows :
          rows[i].f \in DOMAIN accepted /\ accepted[rows[i].f].try > 1
    /\ Serial(prog) => bad_crc = (IF Len(evs) >= 1 THEN 1 ELSE 0)

C3_Witness ==
    /\ Serial(prog) /\ pc = "resync"
    /\ evs = <<"crc">> /\ bad_crc = 1 /\ rows = <<>>

\* The session is over and every byte of the stream has been consumed
Consumed == pc = "done" /\ pos = Len(wire)

\* The garbage in front of the two frames of a resynchronisation stream
Garbage == SubSeq(wire, 1, Len(wire) - Len(TwoFrames(prog).b))

HasMarker(g) == \E i \in 1..(Len(g) - 1) : g[i] = 90 /\ g[i + 1] = 165

BothAccepted ==
    /\ Len(accepted) = 2
    /\ \A i \in 1..2 :
          /\ accepted[i].seq = sent[i].seq
          /\ accepted[i].vals = sent[i].vals

(* C4 as stated: for any garbage in front of [MAGIC][frame][MAGIC][frame], *)
(* a session that consumes the whole stream has accepted both frames,      *)
(* in order.                                                               *)
C4_AnyGarbage == Consumed => BothAccepted

(* C4 amended: the same for garbage in which 0x5A is never immediately     *)
(* followed by 0xA5.                                                       *)
C4_CleanGarbage == (Consumed /\ ~HasMarker(Garbage)) => BothAccepted

C4_Witness ==
    /\ Consumed /\ Len(Garbage) >= 2 /\ ~HasMarker(Garbage)
    /\ Garbage[Len(Garbage)] = 90
    /\ BothAccepted

(* C5: when the source stalls after a marker and a header, the attempt     *)
(* fails as a timeout and the loop goes back to searching for the marker;  *)
(* the stall does not end the session.                                     *)
C5_StallResyncs == LastEv = "timeout_payload" => pc = "resync"

(* C6: in the scripts that track sequence numbers, seq_errors is the       *)
(* number of adjacent accepted pairs (prev, next) with                     *)
(* next # prev + 1 mod 2^32; the first accepted frame is never a gap;      *)
(* 5, 6 gives no gap and 5, 6, 8 exactly one.                              *)
C6_GapCount ==
    HasSeq(prog) =>
      /\ seq_errors = Cardinality({k \in 2..Len(accepted) :
                          ~IsNext(accepted[k - 1].seq, accepted[k].seq)})
      /\ Len(accepted) <= 1 => seq_errors = 0
      /\ AcceptedSeqs = <<W32(0, 5), W32(0, 6)>> => seq_errors = 0
      /\ AcceptedSeqs = <<W32(0, 5), W32(0, 6), W32(0, 8)>> => seq_errors = 1

C6_Witness ==
    /\ AcceptedSeqs = <<W32(0, 5), W32(0, 6), W32(0, 8)>>
    /\ seq_errors = 1
    /\ accepted[2].errs = 0

(* C7: 0xFFFFFFFF followed by 0x00000000 is not a gap: the acceptance of   *)
(* the second leaves seq_errors as it was, and a session that accepted     *)
(* just these two reports zero gaps.                                       *)
C7_Wraparound ==
    HasSeq(prog) =>
      /\ \A k \in 2..Len(accepted) :
            (accepted[k - 1].seq = W32(65535, 65535)
             /\ accepted[k].seq = W32(0, 0))
            => accepted[k].errs = accepted[k - 1].errs
      /\ AcceptedSeqs = <<W32(65535, 65535), W32(0, 0)>> => seq_errors = 0

C7_Witness ==
    /\ AcceptedSeqs = <<W32(65535, 65535), W32(0, 0)>>
    /\ seq_errors = 0

(* C8: every sample written to the consumer is the transmitted container   *)
(* value ANDed with the mask of the script's bit depth, hence at most      *)
(* 2^depth - 1.                                                            *)
C8_Masked ==
    \A i \in DOMAIN rows :
       LET a == accepted[rows[i].f] IN
       rows[i].raw = a.vals[rows[i].idx - a.first + 1] % Pow2(Depth(prog))

(* C9: every row written belongs to a frame whose count was within bounds, *)
(* whose payload and checksum were read in full and whose computed CRC     *)
(* equalled the transmitted one; attempts that were rejected contribute no *)
(* row.                                                                    *)
C9_OnlyValidated ==
    /\ \A i \in DOMAIN rows :
          /\ rows[i].f \in DOMAIN accepted
          /\ LET a == accepted[rows[i].f] IN
             /\ a.n >= 1 /\ a.n <= MaxCount(prog)
             /\ a.got = (a.n * ElemWidth(prog)) + 2
             /\ a.calc = a.rx
             /\ evs[a.try] = "accept"
             /\ rows[i].idx >= a.first /\ rows[i].idx < a.first + a.n
    /\ \A t \in DOMAIN evs :
          evs[t] # "accept" => \A i \in DOMAIN rows : accepted[rows[i].f].try # t

C9_Witness ==
    /\ rows # <<>>
    /\ \E t \in DOMAIN evs : evs[t] = "crc"
    /\ \E t \in DOMAIN evs : evs[t] = "malformed"

\* The step accepts a frame whose sequence number is not the expected one
GapStep ==
    /\ HasSeq(prog)
    /\ Len(accepted') = Len(accepted) + 1
    /\ last_seq # None
    /\ ~IsNext(last_seq, accepted'[Len(accepted')].seq)

(* C10: a sequence gap is not a decode failure: the step that accepts a    *)
(* frame out of sequence adds exactly one to seq_errors, writes all of the *)
(* frame's samples, and does not start a resync.                           *)
C10_GapKeepsFrame ==
    [][GapStep =>
         LET a == accepted'[Len(accepted')] IN
         /\ seq_errors' = seq_errors + 1
         /\ Len(rows') = Len(rows) + a.n
         /\ SubSeq(rows', 1, Len(rows)) = rows
         /\ \A j \in 1..a.n :
               rows'[Len(rows) + j].raw = a.vals[j] % Pow2(Depth(prog))
         /\ syncs' = syncs
         /\ pc' \in {"stay", "top"}]_vars

C10_Witness ==
    /\ Serial(prog) /\ pc = "stay"
    /\ Len(accepted) >= 2
    /\ accepted[Len(accepted)].errs = accepted[Len(accepted) - 1].errs + 1
    /\ Len(rows) = total /\ total >= 2

\* The value the script hands to the writer for a container value v
\* (RPC_sample_csv.py writes the unpacked value as it is)
Delivered(p, v) == IF p = "rpc_sample" THEN v ELSE v % Pow2(Depth(p))

\* Number of samples of the first k accepted frames
RECURSIVE SumN(_)
SumN(k) == IF k = 0 THEN 0 ELSE accepted[k].n + SumN(k - 1)

(* C11: the rows written are the samples of the accepted frames, in        *)
(* acceptance order and in payload order within a frame, each frame        *)
(* exactly once; sample_index runs 0, 1, 2, ... without gap or repeat.     *)
C11_RowsInOrder ==
    /\ Len(rows) = SumN(Len(accepted))
    /\ Len(rows) = total
    /\ \A i \in DOMAIN rows : rows[i].idx = i - 1
    /\ \A k \in DOMAIN accepted :
          /\ accepted[k].first = SumN(k - 1)
          /\ Len(accepted[k].vals) = accepted[k].n
          /\ \A j \in 1..accepted[k].n :
                /\ rows[SumN(k - 1) + j].f = k
                /\ rows[SumN(k - 1) + j].raw
                      = Delivered(prog, accepted[k].vals[j])
    /\ \A k \in 2..Len(accepted) : accepted[k].try > accepted[k - 1].try

C11_Witness ==
    /\ Len(accepted) = 2
    /\ accepted[1].n = 2 /\ accepted[2].n = 2
    /\ accepted[2].try > accepted[1].try + 1
    /\ Len(rows) = 4
    /\ rows[1].raw # rows[2].raw

(* C12: every rejected frame is counted: in the serial scripts the failure *)
(* counter of the summary (bad_crc, the only one they keep) equals the     *)
(* number of attempts rejected for a malformed header or a checksum        *)
(* mismatch.                                                               *)
C12_FailuresCounted ==
    Serial(prog) =>
       bad_crc = Cardinality({t \in DOMAIN evs : evs[t] \in {"malformed", "crc"}})

RECURSIVE BytesOf(_, _, _)
BytesOf(w, a, b) ==
    IF a >= b THEN <<>>
    ELSE (IF w[a + 1] = STALL THEN <<>> ELSE <<w[a + 1]>>) \o BytesOf(w, a + 1, b)

\* sync() has just returned True
SyncFound == Syncing /\ pc' = "top"

(* C14: whenever sync() returns True, the last two bytes it consumed are   *)
(* 0x5A then 0xA5, they are the first occurrence of the marker among the   *)
(* bytes it consumed, and the cursor is immediately after the marker.      *)
C14_SyncPost ==
    [][SyncFound =>
         LET got == BytesOf(wire, from, pos') IN
         /\ Len(got) >= 2
         /\ got[Len(got) - 1] = 90 /\ got[Len(got)] = 165
         /\ \A i \in 1..(Len(got) - 2) : ~(got[i] = 90 /\ got[i + 1] = 165)
         /\ pos' = pos + 1 /\ wire[pos'] = 165]_vars

C14_Witness ==
    /\ pc = "top" /\ evs = <<>>
    /\ pos - from >= 4
    /\ \E i \in (from + 1)..pos : wire[i] = STALL
    /\ \E i \in (from + 1)..(pos - 2) : wire[i] = 165
    /\ wire[pos] = 165

\* The last two bytes consumed from the source are the marker
Locked ==
    LET got == BytesOf(wire, 0, pos) IN
    Len(got) >= 2 /\ got[Len(got) - 1] = 90 /\ got[Len(got)] = 165

\* The step ends a decode attempt with a failure that does not end the
\* session: a malformed header, a checksum mismatch, or a missing marker
\* after an accepted frame.
FailStep ==
    \/ Len(evs') = Len(evs) + 1 /\ evs'[Len(evs')] \in {"malformed", "crc"}
    \/ /\ pc = "stay" /\ pc' # "done"
       /\ SubSeq(wire, pos + 1, pos + 2) # MAGIC_B

(* C15: in the serial loop a header is read only when Locked: whenever the *)
(* loop is about to read a header, the last two bytes consumed are         *)
(* 0x5A 0xA5; the header read is entered only from the loop top; and a     *)
(* malformed header, a checksum mismatch or a missing next marker sends    *)
(* the loop to the marker search before any further header read.           *)
C15_LockInvariant ==
    [][Serial(prog) =>
         /\ pc' \in {"top", "hdr"} => Locked'
         /\ pc' = "hdr" => pc = "top"
         /\ pc' = "top" => pc \in {"start", "resync", "stay"}
         /\ FailStep => pc' = "resync"]_vars

C15_Witness ==
    /\ Serial(prog) /\ pc = "hdr" /\ Locked
    /\ accepted # <<>>
    /\ \E t \in DOMAIN evs : evs[t] = "crc"
    /\ evs[Len(evs)] = "accept"

\* No 0x5A immediately followed by 0xA5 before the last byte of g
NoEarlierMarker(g) ==
    \A i \in 1..(Len(g) - 2) : ~(g[i] = 90 /\ g[i + 1] = 165)

\* The latest attempt has just failed with outcome e
Failed(e) == Len(evs') = Len(evs) + 1 /\ evs'[Len(evs')] = e

(* C16: after a malformed header or a checksum mismatch the cursor stands  *)
(* right after the bytes the failed attempt consumed (the header alone     *)
(* for a malformed header, not the frame end its count implies); the       *)
(* cursor never moves back; and the search that follows examines every     *)
(* byte from the next unconsumed one on: it locks on the first marker      *)
(* that lies wholly in the unconsumed bytes, or gives up having passed no  *)
(* marker.                                                                 *)
C16_ResyncPolicy ==
    [][Serial(prog) =>
         /\ pos' >= pos
         /\ Failed("malformed") => pos' = at' + HDR_AFTER_MAGIC(prog)
         /\ Failed("crc") =>
               pos' = at' + HDR_AFTER_MAGIC(prog) + (2 * U16(hdr', 4)) + 2
         /\ (pc = "resync" /\ pc' = "top") =>
               LET got == BytesOf(wire, pos, pos') IN
               /\ Len(got) >= 2
               /\ got[Len(got) - 1] = 90 /\ got[Len(got)] = 165
               /\ NoEarlierMarker(got)
               /\ wire[pos'] = 165
         /\ (pc = "resync" /\ pc' = "done") =>
               LET got == BytesOf(wire, pos, pos') IN
               NoEarlierMarker(got \o <<0>>)]_vars

\* A header declaring more samples than a frame may hold was rejected, the
\* search locked on a marker inside the span that count implies, and the
\* frame there was accepted.
C16_Witness ==
    /\ Serial(prog)
    /\ Len(evs) >= 2 /\ evs[1] = "malformed" /\ evs[Len(evs)] = "accept"
    /\ U16(hdr, 4) <= FRAME_SAMPLES(prog)
    /\ accepted[1].try = 2
    /\ syncs = 1
    /\ pos < 2 + HDR_AFTER_MAGIC(prog) + (2 * (FRAME_SAMPLES(prog) + 1)) + 2
    /\ SubSeq(wire, 3 + 4, 3 + 5) = LE(FRAME_SAMPLES(prog) + 1, 2)

\* The step ends a decode attempt that the decoder rejects
RejectStep == Len(evs') = Len(evs) + 1 /\ evs'[Len(evs')] # "accept"

(* C17: a decode attempt that fails (malformed header, checksum mismatch,  *)
(* blob length mismatch, or any other rejection) leaves last_seq, the gap  *)
(* counter, the sample total and the rows as they were; last_seq changes   *)
(* only in a step that accepts a frame which passed the length and the     *)
(* checksum check, it then holds that frame's number, and it never goes    *)
(* back to "none".                                                         *)
C17_RejectKeepsState ==
    [][/\ RejectStep =>
             /\ last_seq' = last_seq /\ seq_errors' = seq_errors
             /\ total' = total /\ rows' = rows /\ accepted' = accepted
       /\ last_seq' # last_seq =>
             /\ Len(evs') = Len(evs) + 1 /\ evs'[Len(evs')] = "accept"
             /\ Len(accepted') = Len(accepted) + 1
             /\ LET a == accepted'[Len(accepted')] IN
                /\ a.got = (a.n * ElemWidth(prog)) + 2
                /\ a.calc = a.rx
                /\ last_seq' = a.seq
       /\ last_seq # None => last_seq' # None]_vars

C17_Witness ==
    /\ prog = "rpc_capture"
    /\ evs = <<"accept", "length">>
    /\ last_seq = accepted[1].seq
    /\ Len(rows) = accepted[1].n /\ total >= 2
    /\ empty = 1

\* Accepted frame k was counted as a gap
Gapped(k) ==
    accepted[k].errs = (IF k = 1 THEN 0 ELSE accepted[k - 1].errs) + 1

(* C18: after every accepted frame last_seq is that frame's sequence       *)
(* number, whether or not a gap was counted: each frame was compared with  *)
(* the frame accepted just before it, a frame that does not follow its     *)
(* predecessor counts exactly one gap, and a frame that follows its        *)
(* predecessor counts none even when the predecessor was a gap.            *)
C18_FollowsLastAccepted ==
    HasSeq(prog) =>
      /\ last_seq = (IF accepted = <<>> THEN None
                     ELSE accepted[Len(accepted)].seq)
      /\ \A k \in DOMAIN accepted :
            /\ accepted[k].prev = (IF k = 1 THEN None ELSE accepted[k - 1].seq)
            /\ accepted[k].errs
                  \in {IF k = 1 THEN 0 ELSE accepted[k - 1].errs,
                       (IF k = 1 THEN 0 ELSE accepted[k - 1].errs) + 1}
            /\ (k > 1 /\ IsNext(accepted[k - 1].seq, accepted[k].seq))
                  => ~Gapped(k)
      /\ AcceptedSeqs = <<W32(0, 5), W32(0, 7), W32(0, 8)>> => seq_errors = 1

C18_Witness ==
    /\ AcceptedSeqs = <<W32(0, 5), W32(0, 7), W32(0, 8)>>
    /\ Gapped(2) /\ ~Gapped(3)
    /\ last_seq = W32(0, 8)
    /\ seq_errors = 1

\* Bytes before the samples of an RPC blob
HeaderLen(p) == IF p = "rpc_capture" THEN 6 ELSE 5

\* The count field of the blob that starts k bytes into b
CountAt(p, b, k) == IF p = "rpc_capture" THEN U16(b, k) ELSE b[k + 1]

\* The blob that starts k bytes into b has exactly the length its count
\* field declares: header + count * element size + 2 checksum bytes
ExactAt(p, b, k) ==
    /\ Len(b) - k >= HeaderLen(p) + 2
    /\ Len(b) - k = HeaderLen(p) + (CountAt(p, b, k) * ElemWidth(p)) + 2

\* 1 when the bytes start with the overflow marker, else 0
Lead(b) == IF b # <<>> /\ b[1] = 33 THEN 1 ELSE 0

(* C19: an RPC blob is accepted only if, after at most one leading 0x21    *)
(* is dropped, its length is exactly header + count * element size + 2;    *)
(* the accepted frame is the one that starts right after that single byte; *)
(* a blob of any other length (truncated, or with trailing bytes, or with  *)
(* a second leading 0x21) is rejected and adds no rows.                    *)
C19_StrictLength ==
    [][calls' = calls + 1 =>
         LET b == Normalize(resps[calls']).buf
             k == Lead(b)
         IN  /\ evs'[Len(evs')] = "accept" =>
                  /\ ExactAt(prog, b, k)
                  /\ accepted'[Len(accepted')].n = CountAt(prog, b, k)
                  /\ Len(rows') = Len(rows) + CountAt(prog, b, k)
             /\ ~ExactAt(prog, b, k) =>
                  /\ evs'[Len(evs')] # "accept"
                  /\ rows' = rows /\ total' = total /\ accepted' = accepted
                  /\ last_seq' = last_seq]_vars

\* A blob with one leading 0x21 was accepted, and its truncation was then
\* rejected without rows.
C19_Witness ==
    /\ prog = "rpc_sample" /\ calls = 2
    /\ evs = <<"accept", "length">>
    /\ resps[1].t = "bytes" /\ resps[1].d[1] = 33
    /\ Len(resps[1].d) = 1 + HeaderLen(prog) + (2 * ElemWidth(prog)) + 2
    /\ Len(resps[2].d) = Len(resps[1].d) - 2
    /\ Len(rows) = 2 /\ bad = 1

\* d_1 + ... + d_i
RECURSIVE SumTo(_, _)
SumTo(d, i) == IF i = 0 THEN 0 ELSE d[i] + SumTo(d, i - 1)

\* The bytes of the interleaved blob accepted as frame k, without the
\* leading 0x21 when there was one
BlobOf(k) == StripOverflow(Normalize(resps[accepted[k].try]).buf)

\* Per-sample deltas d_1..d_n of an interleaved blob
DeltasOf(b) == [i \in 1..b[1] |-> b[5 + (3 * i)]]

\* The timestamps written for accepted frame k
StampsOf(k) ==
    [j \in 1..accepted[k].n |-> rows[accepted[k].first + j].ts]

(* C20: every accepted interleaved frame with count n, base timestamp t0   *)
(* and deltas d_1..d_n yields exactly n samples and n timestamps; the i-th *)
(* timestamp is t0 + d_1 + ... + d_i, so timestamps never decrease within  *)
(* a frame, and the i-th sample is the i-th 16-bit little-endian sample of *)
(* the payload; the values are those the sender packed.                    *)
C20_Interleaved ==
    prog = "rpc_sample" =>
      \A k \in DOMAIN accepted :
         LET a  == accepted[k]
             b  == BlobOf(k)
             n  == b[1]
             t0 == Int32(U32(b, 1))
             d  == DeltasOf(b)
             fr == sent[a.try]
         IN  /\ a.n = n /\ Len(a.vals) = n
             /\ a.first + n <= Len(rows)
             /\ \A i \in 1..n :
                   /\ StampsOf(k)[i] = t0 + SumTo(d, i)
                   /\ RowsOf(k)[i] = U16(b, 5 + (3 * (i - 1)))
                   /\ i > 1 => StampsOf(k)[i - 1] <= StampsOf(k)[i]
             /\ fr.valid =>
                   /\ RowsOf(k) = fr.vals
                   /\ \A i \in 1..n : StampsOf(k)[i] = fr.t0 + SumTo(fr.deltas, i)

\* A two-sample frame with deltas 3 and 0 was accepted
C20_Witness ==
    /\ prog = "rpc_sample" /\ Len(accepted) >= 1
    /\ sent[accepted[1].try].valid
    /\ sent[accepted[1].try].deltas = <<3, 0>>
    /\ StampsOf(1) = <<1003, 1003>>
    /\ RowsOf(1) = PayloadDeep

\* Sequence numbers of the two intact frames of a header-corruption stream
IntactSeqs == {W32(0, 4), W32(0, 6)}

\* The attempt that read the frame with the changed header byte, if made
HdrAttempt == IF Len(evs) >= 2 THEN evs[2] ELSE "none"

(* C21: a frame with one byte of its sequence-number field (or gap-cycle   *)
(* field) changed fails the checksum and is rejected: it is never          *)
(* accepted, its sequence number never becomes last_seq, rejecting it      *)
(* counts no gap, and every gap that is counted compares the sequence      *)
(* numbers of two intact frames.  Checked for all four (eight) positions   *)
(* and all 255 other values.                                               *)
C21_HeaderProtected ==
    /\ HdrAttempt \in {"none", "crc"}
    /\ \A k \in DOMAIN accepted :
          /\ accepted[k].try # 2
          /\ accepted[k].seq \in IntactSeqs
          /\ accepted[k].gap = 0
          /\ Gapped(k) => accepted[k].prev \in IntactSeqs
    /\ last_seq \in IntactSeqs \cup {None}
    /\ total_gap = 0
    /\ Len(accepted) <= 1 => seq_errors = 0
    /\ Serial(prog) => bad_crc = (IF HdrAttempt = "crc" THEN 1 ELSE 0)

C21_Witness ==
    /\ prog = "serial_ext" /\ pc = "resync"
    /\ evs = <<"accept", "crc">> /\ bad_crc = 1
    /\ wire[Len(HdrFrame(prog, 1)) + 9] # 0      \* the gap-cycle field
    /\ last_seq = W32(0, 4) /\ seq_errors = 0 /\ Len(rows) = 2

\* Length of the frame whose marker starts at offset q of the stream, as
\* its header declares it
FrameLenAt(q) ==
    2 + HDR_AFTER_MAGIC(prog) + (2 * U16(wire, q + 2 + 4)) + 2

\* An intact frame starts at offset q of the stream: marker, header with a
\* count in range, payload, and the CRC of all of it
IntactAt(q) ==
    /\ q + 2 + HDR_AFTER_MAGIC(prog) <= Len(wire)
    /\ \A i \in (q + 1)..(q + 2 + HDR_AFTER_MAGIC(prog)) : wire[i] # STALL
    /\ SubSeq(wire, q + 1, q + 2) = MAGIC_B
    /\ ~BadCount(prog, U16(wire, q + 2 + 4))
    /\ q + FrameLenAt(q) <= Len(wire)
    /\ \A i \in (q + 1)..(q + FrameLenAt(q)) : wire[i] # STALL
    /\ crc16(SubSeq(wire, q + 1, q + FrameLenAt(q) - 2))
          = U16(wire, q + FrameLenAt(q) - 2)

\* The read cursor is inside an intact frame: past its first byte and
\* before its last
MidFrame ==
    \E q \in 0..Len(wire) :
       IntactAt(q) /\ q < pos /\ pos < q + FrameLenAt(q)

(* C22: the session deadline is tested at the top of the capture loop and  *)
(* nowhere else, and when the loop exits on the deadline the byte source   *)
(* is not in the middle of a frame.                                        *)
C22_DeadlineBetweenFrames ==
    (Serial(prog) /\ pc = "done" /\ exit = "deadline") => ~MidFrame

\* Number of attempts rejected for a checksum mismatch
CrcRejects == Cardinality({t \in DOMAIN evs : evs[t] = "crc"})

\* total is the number of rows written and the sum of the sample counts of
\* the accepted frames; bad_crc is the number of checksum rejections
TotalsExact ==
    /\ total = Len(rows)
    /\ total = SumN(Len(accepted))
    /\ bad_crc = CrcRejects

(* C23 as stated: in every reachable state of the serial capture loop the  *)
(* totals are exact and seq_errors is at most the number of accepted       *)
(* frames minus one.                                                       *)
C23_AsStated ==
    Serial(prog) => (TotalsExact /\ seq_errors <= Len(accepted) - 1)

(* C23: in every reachable state of the serial capture loop the totals are *)
(* exact; seq_errors is 0 while no frame has been accepted and at most the *)
(* number of accepted frames minus one afterwards.                         *)
C23_CountersExact ==
    Serial(prog) =>
       /\ TotalsExact
       /\ accepted = <<>> => seq_errors = 0
       /\ accepted # <<>> => seq_errors <= Len(accepted) - 1

C23_Witness ==
    /\ Serial(prog) /\ evs = <<"accept", "crc", "accept">>
    /\ seq_errors = 1 /\ bad_crc = 1
    /\ total = 3 /\ Len(rows) = 3

---------------------------------------------------------------------------
(* The SPI batch capture: csvfile.run_to_csv and csvlist.run.  The batch   *)
(* is scaled down; the stream is the concatenation of the transfers.       *)

SPI(p) == p \in {"spi_file", "spi_list"}

\* Samples per transfer (1024 in the scripts)
BATCH_SIZE == 2

\* TOTAL_BYTES = (BATCH_SIZE + 1) * 2
TOTAL_BYTES == (BATCH_SIZE + 1) * 2

\* data[a:b] of Python for 0 <= a <= b: the slice stops at the end of data
PySlice(buf, a, b) == SubSeq(buf, a + 1, IF b < Len(buf) THEN b ELSE Len(buf))

\* data.find(MAGIC): offset of the first occurrence, -1 when there is none
Find(data) ==
    LET hits == {i \in 0..(Len(data) - 2) : PySlice(data, i, i + 2) = MAGIC_B}
    IN  IF hits = {} THEN -1
        ELSE CHOOSE i \in hits : \A j \in hits : i <= j

\* The payload chosen from one transfer: sel is FALSE when none is chosen
Select(data) ==
    IF PySlice(data, 0, 2) = MAGIC_B
    THEN [sel |-> TRUE, off |-> 0, payload |-> PySlice(data, 2, Len(data))]
    ELSE LET offset == Find(data) IN
         IF offset # -1 /\ (Len(data) - offset) >= (BATCH_SIZE * 2)
         THEN [sel |-> TRUE, off |-> offset,
               payload |-> PySlice(data, offset + 2, offset + 2 + (BATCH_SIZE * 2))]
         ELSE [sel |-> FALSE, off |-> offset, payload |-> <<>>]

\* "if payload:" of csvfile.py skips an empty payload; csvlist.py unpacks
\* whatever it selected
Unpacks(p, c) == c.sel /\ (p = "spi_file" => c.payload # <<>>)

\* writer.writerow for each sample of struct.unpack('<{BATCH_SIZE}h', payload)
SpiRows(p, payload, first) ==
    [i \in 1..BATCH_SIZE |->
        [idx  |-> IF p = "spi_file" THEN first + i - 1 ELSE 0,
         raw  |-> S16(payload, 2 * (i - 1)),
         ts   |-> 0, flag |-> 0, f |-> calls + 1]]

SpiUnchanged ==
    UNCHANGED <<given, hdr, bad_crc, seq_errors, last_seq, bad, empty,
                total_gap, accepted, syncs, clock>>

\* One iteration of "while True": a transfer, the marker test, the unpack.
\* struct.unpack raises struct.error unless the payload is BATCH_SIZE * 2
\* bytes long; nothing catches it.
SpiTransfer ==
    /\ pc = "xfer" /\ SPI(prog) /\ pos + TOTAL_BYTES <= Len(wire)
    /\ LET data == PySlice(wire, pos, pos + TOTAL_BYTES)
           c    == Select(data)
       IN  /\ pos' = pos + TOTAL_BYTES
           /\ calls' = calls + 1
           /\ at' = c.off
           /\ IF ~Unpacks(prog, c)
              THEN /\ evs' = Append(evs, "skip")
                   /\ UNCHANGED <<rows, total, pc, exit>>
              ELSE IF Len(c.payload) # BATCH_SIZE * 2
              THEN /\ evs' = Append(evs, "struct.error")
                   /\ Stop("struct.error")
                   /\ UNCHANGED <<rows, total>>
              ELSE /\ evs' = Append(evs, "accept")
                   /\ rows' = rows \o SpiRows(prog, c.payload, total)
                   /\ total' = IF prog = "spi_file" THEN total + BATCH_SIZE
                               ELSE total
                   /\ UNCHANGED <<pc, exit>>
    /\ SpiUnchanged

\* except KeyboardInterrupt: the only way out of the loop
SpiInterrupt ==
    /\ pc = "xfer" /\ SPI(prog)
    /\ Stop("KeyboardInterrupt")
    /\ UNCHANGED <<pos, calls, at, evs, rows, total>>
    /\ SpiUnchanged

NextSPI == SpiTransfer \/ SpiInterrupt

MaxXfers == 2

\* One transfer of TOTAL_BYTES bytes with the marker at offset k (no marker
\* when k = -1); the other bytes are 1, 2, 3, ...
Xfer(k) ==
    [i \in 1..TOTAL_BYTES |->
        IF k # -1 /\ i = k + 1 THEN 90
        ELSE IF k # -1 /\ i = k + 2 THEN 165
        ELSE i]

RECURSIVE SpiStreams(_)
SpiStreams(n) ==
    {<<>>} \cup
    (IF n = 0 THEN {}
     ELSE {Xfer(k) \o r : k \in -1..(TOTAL_BYTES - 2), r \in SpiStreams(n - 1)})

InitSPI ==
    /\ prog \in {"spi_file", "spi_list"}
    /\ wire \in SpiStreams(MaxXfers)
    /\ resps = <<>> /\ sent = <<>>
    /\ pc = "xfer"
    /\ Start

SpecSPI == InitSPI /\ [][NextSPI]_vars

\* The k-th transfer of the stream
XferOf(k) == PySlice(wire, (k - 1) * TOTAL_BYTES, k * TOTAL_BYTES)

(* C24: in the SPI batch capture, whenever a payload is selected for       *)
(* unpacking, with the marker at offset 0 or later in the transfer, it is  *)
(* exactly BATCH_SIZE * 2 bytes long, so the unpack never fails and the    *)
(* loop is never ended by a late marker.                                   *)
C24_PayloadExact ==
    SPI(prog) =>
       /\ \A k \in 1..calls :
             Unpacks(prog, Select(XferOf(k)))
                => Len(Select(XferOf(k)).payload) = BATCH_SIZE * 2
       /\ exit # "struct.error"

---------------------------------------------------------------------------
\* Number of responses parse_frame of RPC_capture.py rejected
RpcRejects == Cardinality({t \in DOMAIN evs : evs[t] # "accept"})

(* C25: in RPC_capture.run_capture every response that parse_frame rejects *)
(* (empty response, undecodable text, short or mismatched length, CRC      *)
(* mismatch) is counted in empty; bad stays 0 in every reachable state; an *)
(* accepted response increments neither.                                   *)
C25_EmptyCountsRejects ==
    prog = "rpc_capture" =>
       /\ bad = 0
       /\ empty = RpcRejects
       /\ empty + Len(accepted) = calls
       /\ Len(evs) = calls

C25_Witness ==
    /\ prog = "rpc_capture" /\ calls = 2
    /\ evs[1] = "accept" /\ evs[2] \in {"empty", "text", "length", "crc"}
    /\ empty = 1 /\ bad = 0 /\ Len(accepted) = 1

\* gap_cycles of the first k accepted frames, added up
RECURSIVE SumGap(_)
SumGap(k) == IF k = 0 THEN 0 ELSE accepted[k].gap + SumGap(k - 1)

\* Row i is the first sample of an accepted frame with gap_cycles > 0 that
\* is not the first accepted frame of the session
FlagDue(i) ==
    \E k \in DOMAIN accepted :
       k > 1 /\ accepted[k].gap > 0 /\ i = accepted[k].first + 1

===========================================================================
